---- MODULE Spec2Model ----
(***************************************************************************)
(* Model of the tele_scribe transcript relay.                              *)
(*                                                                         *)
(*  Spec      : the streaming relay, streamTranscriptionToBot, with the    *)
(*              catch clause of its driver botOnVoice (src/bot.ts)         *)
(*  SpecBatch : the batch sessions, transcribeMedia with its handlers and  *)
(*              the cancellation registry                                  *)
(*  SpecChunked : one call of util.chunked, run statement by statement     *)
(*  SpecDeleteFile : one call of util.deleteFile on a temporary directory  *)
(*  SpecAllowList : the allow-list filter in front of the media handler    *)
(*  SpecScripted : the streaming relay on a given event sequence           *)
(*  SpecBatchFair : one batch session whose awaited calls all settle       *)
(*  SpecTmpFiles : the temporary files of two concurrent batch sessions    *)
(*                                                                         *)
(* Strings are kept run-length encoded: a string is a sequence of runs     *)
(* <<c, n>> (character c repeated n > 0 times) in which adjacent runs have *)
(* different characters.  Every string has exactly one such encoding, so   *)
(* equality of encodings is equality of strings, and a 4096 character      *)
(* message costs a handful of runs.                                        *)
(***************************************************************************)
EXTENDS Integers, Sequences, FiniteSets, TLC

(* ------------------------------ bounds --------------------------------- *)
\* number of events the transcription source delivers in one session
MaxEvents == 2

\* length of the strings util.chunked is called with, one character at a time
MaxStrLen == 4

\* the chunk sizes util.chunked is called with
MaxChunkSize == 5

\* the number of file names of the temporary directory
MaxFiles == 3

\* the length of CHATS_ALLOWLIST
MaxEnvLen == 3

(* -------------------------- program constants -------------------------- *)
messagesDelay == 1000
charsInMessage == 4096
reservedChars == 23

(* ------------------------------ strings -------------------------------- *)
\* s + t
Cat(s, t) ==
    IF s = <<>> THEN t
    ELSE IF t = <<>> THEN s
    ELSE IF s[Len(s)][1] = t[1][1]
         THEN SubSeq(s, 1, Len(s) - 1)
                \o << <<t[1][1], s[Len(s)][2] + t[1][2]>> >>
                \o Tail(t)
         ELSE s \o t

RECURSIVE StrLen(_)
\* s.length
StrLen(s) == IF s = <<>> THEN 0 ELSE s[1][2] + StrLen(Tail(s))

RECURSIVE Str(_)
\* the string spelled by a sequence of characters
Str(cs) == IF cs = <<>> THEN <<>> ELSE Cat(<< <<cs[1], 1>> >>, Str(Tail(cs)))

\* c repeated n times
Rep(c, n) == IF n = 0 THEN <<>> ELSE << <<c, n>> >>

RECURSIVE StripTags(_, _)
StripTags(s, inTag) ==
    IF s = <<>> THEN <<>>
    ELSE IF s[1][1] = "<" THEN StripTags(Tail(s), TRUE)
    ELSE IF s[1][1] = ">"
         THEN IF inTag
              THEN Cat(Rep(">", s[1][2] - 1), StripTags(Tail(s), FALSE))
              ELSE Cat(<<s[1]>>, StripTags(Tail(s), FALSE))
    ELSE IF inTag THEN StripTags(Tail(s), TRUE)
    ELSE Cat(<<s[1]>>, StripTags(Tail(s), FALSE))

\* the text the chat platform shows for a text sent with parse_mode HTML
ParseHtml(s) == StripTags(s, FALSE)

\* the text the chat platform shows for a request
Shown(text, html) == IF html THEN ParseHtml(text) ELSE text

\* "<em>Start transcribing...</em>"
StartText ==
    Str(<<"<","e","m",">","S","t","a","r","t"," ","t","r","a","n","s","c","r",
          "i","b","i","n","g",".",".",".","<","/","e","m",">">>)

\* "\n<em>Generating...</em>"
GeneratingSuffix ==
    Str(<<"\n","<","e","m",">","G","e","n","e","r","a","t","i","n","g",
          ".",".",".","<","/","e","m",">">>)

\* "\n<b>Stopped</b>"
StoppedSuffix ==
    Str(<<"\n","<","b",">","S","t","o","p","p","e","d","<","/","b",">">>)

\* "Error processing voice message: "
VoiceErrorPrefix ==
    Str(<<"E","r","r","o","r"," ","p","r","o","c","e","s","s","i","n","g",
          " ","v","o","i","c","e"," ","m","e","s","s","a","g","e",":"," ">>)

\* "Error processing message: "
ErrorPrefix ==
    Str(<<"E","r","r","o","r"," ","p","r","o","c","e","s","s","i","n","g",
          " ","m","e","s","s","a","g","e",":"," ">>)

RECURSIVE Take(_, _)
\* the first n characters of s (all of s when it is shorter)
Take(s, n) ==
    IF n <= 0 \/ s = <<>> THEN <<>>
    ELSE IF s[1][2] >= n THEN << <<s[1][1], n>> >>
    ELSE <<s[1]>> \o Take(Tail(s), n - s[1][2])

RECURSIVE Drop(_, _)
\* s without its first n characters
Drop(s, n) ==
    IF n <= 0 \/ s = <<>> THEN s
    ELSE IF s[1][2] > n THEN << <<s[1][1], s[1][2] - n>> >> \o Tail(s)
    ELSE Drop(Tail(s), n - s[1][2])

\* str.slice(from, to) for 0 <= from <= to
Slice(s, from, to) == Take(Drop(s, from), to - from)

\* a / b rounded down
Floor(a, b) == a \div b

\* Math.ceil(a / b) for a >= 0, b > 0
Ceil(a, b) == (a + b - 1) \div b

\* chunked(str, chunkSize)
chunked(str, chunkSize) ==
    [i \in 1..Ceil(StrLen(str), chunkSize) |->
        Slice(str, (i - 1) * chunkSize, i * chunkSize)]

(* ---------------------------- environment ------------------------------ *)
\* the text fragments the transcription source may deliver: a short one, one
\* that with the status suffix fills a message exactly, and one that alone is
\* longer than a message
Deltas ==
    { Rep("a", 1),
      Rep("c", charsInMessage - reservedChars),
      Rep("d", charsInMessage + 1) }

\* milliseconds that may pass while the relay awaits the next event
Elapsed == {0, messagesDelay, messagesDelay + 1}

\* milliseconds that may pass while the relay awaits ctx.reply
ReplyLatency == {1}

\* milliseconds by which the timer of the final delay may fire late
TimerLatency == {0, 1}

(* ------------------------------- state --------------------------------- *)
VARIABLES
    pc,            \* where streamTranscriptionToBot is suspended
    now,           \* Date.now()
    lastMsgTime,
    buffer,
    returnMsgId,
    messageCount,
    chunk,         \* the event the loop body is handling
    nowLocal,      \* `const now` of the loop body
    ops,           \* every send/edit issued to the chat gateway, in order
    inflight,      \* indices into ops of the requests not yet settled
    visible,       \* message id -> text the platform shows
    nEvents,       \* events delivered so far
    doneSeen,      \* the terminal marker was delivered
    afterDone,     \* an event was delivered after the terminal marker
    received,      \* concatenation of the deltas delivered before the marker
    unhandled,     \* indices into ops of the rejected requests nothing handles
    maxMessageLength,     \* the message limit the relay was built with
    reservedSuffixLength, \* the room it keeps for the status suffix
    source         \* the event source: free, or the events it will deliver

\* what the relay was built with and is given; no step changes it
kvars == <<maxMessageLength, reservedSuffixLength, source>>

\* the state of the streaming relay
svars == <<pc, now, lastMsgTime, buffer, returnMsgId, messageCount, chunk,
           nowLocal, ops, inflight, visible, nEvents, doneSeen, afterDone,
           received, unhandled, kvars>>

VARIABLES
    bpc,           \* session -> where its handler / transcribeMedia is suspended
    kind,          \* session -> "voice" | "video_note"
    cancellationId,\* session -> `${ctx.msgId}`
    cancellations, \* the registry: cancellation id -> AbortController (its session)
    aborted,       \* session -> signal.aborted of its AbortController
    abortedAt,     \* session -> what it awaited when its signal was aborted
    returnMsg,     \* session -> the message transcribeMedia edits / replies to
    filePath,      \* session -> `filePath` of transcribeMedia
    deleted,       \* session -> the temporary files deleteFile was called for
    chunks,        \* session -> the slices still to be sent
    bops,          \* session -> the edits/sends transcribeMedia issued, in order
    outcome,       \* session -> how transcribeMedia ended
    transcript,    \* session -> the text `transcribe` resolved with
    abortedAgain,  \* session -> abort() was called when its signal was aborted
    nextMsgId,     \* the id the chat platform gives the next message
    created        \* session -> the temporary files its calls wrote, wholly or partly

\* the state of the batch sessions
bvars == <<bpc, kind, cancellationId, cancellations, aborted, abortedAt,
           returnMsg, filePath, deleted, chunks, bops, outcome, transcript,
           abortedAgain, nextMsgId, created>>

VARIABLES
    cpc,           \* where the call of chunked is
    callStr,       \* `str` of the call
    callSize,      \* `chunkSize` of the call
    numberOfChunks,
    loopI,         \* `i` of the loop
    pushed         \* `chunks` of the call

\* the state of a call of util.chunked
cvars == <<cpc, callStr, callSize, numberOfChunks, loopI, pushed>>

VARIABLES
    dpc,           \* where the call of deleteFile is
    unlinkPath,    \* `filePath` of the call
    files,         \* the files that exist in the temporary directory
    readOnly,      \* the temporary directory does not permit removals
    unlinked       \* how unlink settled

\* the state of a call of util.deleteFile
dvars == <<dpc, unlinkPath, files, readOnly, unlinked>>

VARIABLES
    chatsAllowlist,\* process.env.CHATS_ALLOWLIST
    chatId,        \* session -> ctx.chatId of the message that started it
    ignored        \* the chats whose messages the filter kept from the handler

\* the allow-list and what it let through
avars == <<chatsAllowlist, chatId, ignored>>

VARIABLES
    tpc,            \* where each session stands with its temporary files
    media,          \* the file name each session's media URL ends in
    localPath,      \* the local filePath of each session's transcribeMedia
    tmp,            \* the temporary directory: path |-> session whose bytes it holds
    unlinks         \* the paths handed to unlink and not removed yet

tvars == <<tpc, media, localPath, tmp, unlinks>>

vars == <<svars, bvars, cvars, dvars, avars, tvars>>

DeltaEvent(d) == [type |-> "transcript.text.delta", delta |-> d]
DoneEvent == [type |-> "transcript.text.done", delta |-> <<>>]
OtherEvent == [type |-> "other", delta |-> <<>>]

\* a request to the chat gateway, issued at time t.  msg is the message an
\* edit changes or a send creates, replyTo the message a send replies to.
Request(op, msg, replyTo, text, html, role, t) ==
    [op |-> op, msg |-> msg, replyTo |-> replyTo, text |-> text,
     html |-> html, role |-> role, at |-> t]

\* editMessageText(ctx, messageId, text, format?): the request is issued and
\* the promise is handed back, nothing waits for it here
editMessageText(msg, text, html, role, t) ==
    /\ ops' = Append(ops, Request("edit", msg, 0, text, html, role, t))
    /\ inflight' = inflight \cup {Len(ops) + 1}

\* msg.message_id of the placeholder the handler sent: the `returnMsgId` its
\* driver (botOnVoice, botOnVideoNote) is called with and never reassigns
placeholderMsgId == 1

\* error.message of a failed collaborator call
FailureMessage == Str(<<"f","a","i","l","e","d">>)

\* the edit of the catch clause of the driver, issued and not awaited
DriverErrorEdit(t) ==
    Request("edit", placeholderMsgId, 0, Cat(VoiceErrorPrefix, FailureMessage),
            FALSE, "error", t)

\* the inbound media messages handled concurrently
Sessions == {1, 2}

\* the ids the inbound messages may carry (ids are per chat: two chats may
\* use the same one); sessions are numbered in the order of arrival and the
\* n-th uses one of the first n ids
MsgIds == {1, 2}

\* the texts the provider may return: empty, short, and one that needs two
\* full messages and a third one
Transcripts ==
    { <<>>,
      Rep("a", 1),
      Rep("z", charsInMessage + charsInMessage + 1) }

NoMsg == [id |-> 0, text |-> <<>>]

InitBatch ==
    /\ bpc = [s \in Sessions |-> "idle"]
    /\ kind = [s \in Sessions |-> "voice"]
    /\ cancellationId = [s \in Sessions |-> 0]
    /\ cancellations = <<>>
    /\ aborted = [s \in Sessions |-> FALSE]
    /\ abortedAt = [s \in Sessions |-> "none"]
    /\ returnMsg = [s \in Sessions |-> NoMsg]
    /\ filePath = [s \in Sessions |-> "none"]
    /\ deleted = [s \in Sessions |-> {}]
    /\ chunks = [s \in Sessions |-> <<>>]
    /\ bops = [s \in Sessions |-> <<>>]
    /\ outcome = [s \in Sessions |-> "none"]
    /\ transcript = [s \in Sessions |-> <<>>]
    /\ abortedAgain = [s \in Sessions |-> FALSE]
    /\ nextMsgId = 1
    /\ created = [s \in Sessions |-> {}]

\* no file name, no path
NoFile == [stem |-> "", ext |-> "", m4a |-> FALSE]

\* no session has started and the temporary directory is empty
InitTmpFiles ==
    /\ tpc = [s \in Sessions |-> "idle"]
    /\ media = [s \in Sessions |-> NoFile]
    /\ localPath = [s \in Sessions |-> NoFile]
    /\ tmp = <<>>
    /\ unlinks = {}

\* an event source that may deliver any event next
Free == [free |-> TRUE, events |-> <<>>]

\* an event source that delivers the given events, in order, and then ends
Scripted(events) == [free |-> FALSE, events |-> events]

\* the relay built with the given limits, reading the given source
Built(max, reserved, src) ==
    /\ maxMessageLength = max
    /\ reservedSuffixLength = reserved
    /\ source = src

\* the driver was called with the id of the placeholder
InitRelay ==
    /\ pc = "fetch"
    /\ now = 0
    /\ lastMsgTime = 0
    /\ buffer = <<>>
    /\ returnMsgId = placeholderMsgId
    /\ messageCount = 1
    /\ chunk = OtherEvent
    /\ nowLocal = 0
    /\ ops = <<>>
    /\ inflight = {}
    /\ visible = (placeholderMsgId :> ParseHtml(StartText))
    /\ nEvents = 0
    /\ doneSeen = FALSE
    /\ afterDone = FALSE
    /\ received = <<>>
    /\ unhandled = {}

\* the program as built: charsInMessage = 4096, reservedChars = 23
InitStream == Built(charsInMessage, reservedChars, Free) /\ InitRelay

\* chunked(s, c) has been called and has not run yet
ChunkedCalled(s, c) ==
    /\ cpc = "called"
    /\ callStr = s
    /\ callSize = c
    /\ numberOfChunks = 0
    /\ loopI = 0
    /\ pushed = <<>>

\* deleteFile(path) has been called and has not run yet
DeleteFileCalled(path, present, locked) ==
    /\ dpc = "called"
    /\ unlinkPath = path
    /\ files = present
    /\ readOnly = locked
    /\ unlinked = "none"

\* an environment variable: not set, or set to a string
Unset == [set |-> FALSE, value |-> <<>>]
SetTo(str) == [set |-> TRUE, value |-> str]

\* the process was started with CHATS_ALLOWLIST = env
Configured(env) ==
    /\ chatsAllowlist = env
    /\ chatId = [s \in Sessions |-> 0]
    /\ ignored = {}

Init ==
    /\ InitStream
    /\ InitBatch
    /\ InitTmpFiles
    /\ ChunkedCalled(<<>>, 1)
    /\ DeleteFileCalled(1, {}, FALSE)
    /\ Configured(Unset)

\* Fits with the limit itself excluded
FitsStrict(buf, delta) ==
    StrLen(Cat(buf, delta)) + reservedSuffixLength < maxMessageLength

\* the candidate buffer + delta leaves room for the status suffix
Fits(buf, delta) ==
    StrLen(Cat(buf, delta)) + reservedSuffixLength <= maxMessageLength

\* Due with the interval itself included
DueInclusive(t, last) == t - last >= messagesDelay

\* the pacing test of the loop
Due(t, last) == t - last > messagesDelay

\* Appended with the delta put in front
Prepended(buf, delta) == Cat(delta, buf)

\* buffer += chunk.delta
Appended(buf, delta) == Cat(buf, delta)

\* PacedText without the progress suffix
PacedTextBare(buf) == buf

\* `${buffer}\n<em>Generating...</em>`
PacedText(buf) == Cat(buf, GeneratingSuffix)

\* OpenText without the progress suffix
OpenTextBare(delta) == delta

\* `${chunk.delta}\n<em>Generating...</em>`
OpenText(delta) == Cat(delta, GeneratingSuffix)

\* the text of the edit that closes a full message
ClosingText(buf) == buf

\* the buffer cleared on rotation, the delta that caused it dropped
CarriedNothing(buf, delta) == <<>>

\* buffer = chunk.delta
Carried(buf, delta) == delta

\* FinalDelay one millisecond short
FinalDelayShort(t, last) == messagesDelay - (t - last) - 1

\* messagesDelay - (Date.now() - lastMsgTime)
FinalDelay(t, last) == messagesDelay - (t - last)

\* the text of the last edit
FinalText(buf) == buf

\* the source delivers ev next
Offered(ev) ==
    IF source.free THEN nEvents < MaxEvents
    ELSE /\ nEvents < Len(source.events)
         /\ source.events[nEvents + 1] = ev

\* the source has nothing more to deliver
Exhausted == source.free \/ nEvents = Len(source.events)

\* Delivered with the type of the event lost
DeliveredUntyped(ev) ==
    /\ chunk' = OtherEvent
    /\ nEvents' = nEvents + 1
    /\ afterDone' = (afterDone \/ doneSeen)
    /\ doneSeen' = (doneSeen \/ ev.type = "transcript.text.done")
    /\ received' = IF doneSeen THEN received ELSE Cat(received, ev.delta)

\* bookkeeping of a delivered event
Delivered(ev) ==
    /\ chunk' = ev
    /\ nEvents' = nEvents + 1
    /\ afterDone' = (afterDone \/ doneSeen)
    /\ doneSeen' = (doneSeen \/ ev.type = "transcript.text.done")
    /\ received' = IF doneSeen THEN received ELSE Cat(received, ev.delta)

\* the driver got the file and `transcribe` resolved with the event stream:
\* streamTranscriptionToBot starts
Fetched ==
    /\ UNCHANGED <<bvars, cvars, dvars, avars, tvars, kvars>>
    /\ UNCHANGED unhandled
    /\ pc = "fetch"
    /\ lastMsgTime' = now
    /\ pc' = "loop"
    /\ UNCHANGED <<now, buffer, returnMsgId, messageCount, chunk, nowLocal,
                   ops, inflight, visible, nEvents, doneSeen, afterDone,
                   received>>

\* getFile, the download, the extraction or `transcribe` rejected: the catch
\* clause of the driver edits the message the driver was called with
FetchFailed ==
    /\ UNCHANGED <<bvars, cvars, dvars, avars, tvars, kvars>>
    /\ UNCHANGED unhandled
    /\ pc = "fetch"
    /\ ops' = Append(ops, DriverErrorEdit(now))
    /\ inflight' = inflight \cup {Len(ops) + 1}
    /\ pc' = "threw"
    /\ UNCHANGED <<now, lastMsgTime, buffer, returnMsgId, messageCount, chunk,
                   nowLocal, visible, nEvents, doneSeen, afterDone, received>>

\* the event stream rejected instead of delivering its next event: the
\* relay throws and the catch clause of the driver issues its edit
StreamFailed ==
    /\ UNCHANGED <<bvars, cvars, dvars, avars, tvars, kvars>>
    /\ UNCHANGED unhandled
    /\ pc = "loop"
    /\ nEvents < MaxEvents
    /\ ops' = Append(ops, DriverErrorEdit(now))
    /\ inflight' = inflight \cup {Len(ops) + 1}
    /\ pc' = "threw"
    /\ UNCHANGED <<now, lastMsgTime, buffer, returnMsgId, messageCount, chunk,
                   nowLocal, visible, nEvents, doneSeen, afterDone, received>>

\* a delta that fits: append, and edit the live message when an update is due
OnDeltaFits(delta, e) ==
    /\ UNCHANGED <<bvars, cvars, dvars, avars, tvars, kvars>>
    /\ UNCHANGED unhandled
    /\ pc = "loop"
    /\ Offered(DeltaEvent(delta))
    /\ Fits(buffer, delta)
    /\ now' = now + e
    /\ nowLocal' = now'
    /\ buffer' = Appended(buffer, delta)
    /\ IF Due(now', lastMsgTime)
       THEN /\ lastMsgTime' = now'
            /\ editMessageText(returnMsgId, PacedText(buffer'), TRUE, "paced",
                               now')
       ELSE UNCHANGED <<lastMsgTime, ops, inflight>>
    /\ Delivered(DeltaEvent(delta))
    /\ UNCHANGED <<pc, returnMsgId, messageCount, visible>>

\* a delta that does not fit: reply with a continuation message and wait
OnDeltaOverflow(delta, e) ==
    /\ UNCHANGED <<bvars, cvars, dvars, avars, tvars, kvars>>
    /\ UNCHANGED unhandled
    /\ pc = "loop"
    /\ Offered(DeltaEvent(delta))
    /\ ~Fits(buffer, delta)
    /\ now' = now + e
    /\ nowLocal' = now'
    /\ ops' = Append(ops, Request("send", messageCount + 1, returnMsgId,
                                  OpenText(delta), TRUE, "open", now'))
    /\ inflight' = inflight \cup {Len(ops) + 1}
    /\ pc' = "reply"
    /\ Delivered(DeltaEvent(delta))
    /\ UNCHANGED <<lastMsgTime, buffer, returnMsgId, messageCount, visible>>

\* ctx.reply resolved: switch to the new message, close the previous one
ReplySent(l) ==
    /\ UNCHANGED <<bvars, cvars, dvars, avars, tvars, kvars>>
    /\ UNCHANGED unhandled
    /\ pc = "reply"
    /\ now' = now + l
    /\ visible' = visible @@ (ops[Len(ops)].msg :> Shown(ops[Len(ops)].text, TRUE))
    /\ returnMsgId' = ops[Len(ops)].msg
    /\ messageCount' = messageCount + 1
    /\ lastMsgTime' = nowLocal
    /\ ops' = Append(ops, Request("edit", returnMsgId, 0, ClosingText(buffer),
                                  FALSE, "closing", now'))
    /\ inflight' = (inflight \ {Len(ops)}) \cup {Len(ops) + 1}
    /\ buffer' = Carried(buffer, chunk.delta)
    /\ pc' = "loop"
    /\ UNCHANGED <<chunk, nowLocal, nEvents, doneSeen, afterDone, received>>

\* ctx.reply rejected: the relay throws out of the loop and the catch
\* clause of the driver issues its edit
ReplyFailed ==
    /\ UNCHANGED <<bvars, cvars, dvars, avars, tvars, kvars>>
    /\ UNCHANGED unhandled
    /\ pc = "reply"
    /\ ops' = Append(ops, DriverErrorEdit(now))
    /\ inflight' = (inflight \ {Len(ops)}) \cup {Len(ops) + 1}
    /\ pc' = "threw"
    /\ UNCHANGED <<now, lastMsgTime, buffer, returnMsgId, messageCount, chunk,
                   nowLocal, visible, nEvents, doneSeen, afterDone, received>>

\* transcript.text.done: logged, the loop goes on.  The marker and events of
\* other types arrive in the read that brought the event before them; the
\* time the relay waits is that of the deltas and of the end of the stream.
OnDone ==
    /\ UNCHANGED <<bvars, cvars, dvars, avars, tvars, kvars>>
    /\ UNCHANGED unhandled
    /\ pc = "loop"
    /\ Offered(DoneEvent)
    /\ Delivered(DoneEvent)
    /\ UNCHANGED <<pc, now, lastMsgTime, buffer, returnMsgId, messageCount,
                   nowLocal, ops, inflight, visible>>

\* an event of another type: logged, the loop goes on
OnUnknown ==
    /\ UNCHANGED <<bvars, cvars, dvars, avars, tvars, kvars>>
    /\ UNCHANGED unhandled
    /\ pc = "loop"
    /\ Offered(OtherEvent)
    /\ Delivered(OtherEvent)
    /\ UNCHANGED <<pc, now, lastMsgTime, buffer, returnMsgId, messageCount,
                   nowLocal, ops, inflight, visible>>

\* return editMessageText(ctx, returnMsgId, buffer)
FinalEdit(t) ==
    /\ editMessageText(returnMsgId, FinalText(buffer), FALSE, "final", t)
    /\ pc' = "final"

\* the stream is exhausted: flush at once when the interval has passed
StreamEnd(e) ==
    /\ UNCHANGED <<bvars, cvars, dvars, avars, tvars, kvars>>
    /\ UNCHANGED unhandled
    /\ pc = "loop"
    /\ Exhausted
    /\ now' = now + e
    /\ IF FinalDelay(now', lastMsgTime) > 0
       THEN pc' = "delay" /\ UNCHANGED <<ops, inflight>>
       ELSE FinalEdit(now')
    /\ UNCHANGED <<lastMsgTime, buffer, returnMsgId, messageCount, chunk,
                   nowLocal, visible, nEvents, doneSeen, afterDone, received>>

\* the timer set for finalDelay fired, l milliseconds late
DelayOver(l) ==
    /\ UNCHANGED <<bvars, cvars, dvars, avars, tvars, kvars>>
    /\ UNCHANGED unhandled
    /\ pc = "delay"
    /\ now' = now + FinalDelay(now, lastMsgTime) + l
    /\ FinalEdit(now')
    /\ UNCHANGED <<lastMsgTime, buffer, returnMsgId, messageCount, chunk,
                   nowLocal, visible, nEvents, doneSeen, afterDone, received>>

\* the gateway carried out an edit; the relay resumes when it was the final one
EditDone(i) ==
    /\ UNCHANGED <<bvars, cvars, dvars, avars, tvars, kvars>>
    /\ UNCHANGED unhandled
    /\ i \in inflight
    /\ ops[i].op = "edit"
    /\ visible' = [visible EXCEPT ![ops[i].msg] = Shown(ops[i].text, ops[i].html)]
    /\ inflight' = inflight \ {i}
    /\ pc' = IF ops[i].role = "final" THEN "returned" ELSE pc
    /\ UNCHANGED <<now, lastMsgTime, buffer, returnMsgId, messageCount, chunk,
                   nowLocal, ops, nEvents, doneSeen, afterDone, received>>

\* the gateway rejected an edit.  The promise of the last edit is the one the
\* relay returns and the driver awaits: its catch clause issues the error
\* edit.  Every other edit was issued and its promise dropped: nothing handles
\* the rejection.
EditFailed(i) ==
    /\ UNCHANGED <<bvars, cvars, dvars, avars, tvars, kvars>>
    /\ i \in inflight
    /\ ops[i].op = "edit"
    /\ IF ops[i].role = "final"
       THEN /\ ops' = Append(ops, DriverErrorEdit(now))
            /\ inflight' = (inflight \ {i}) \cup {Len(ops) + 1}
            /\ pc' = "threw"
            /\ UNCHANGED unhandled
       ELSE /\ inflight' = inflight \ {i}
            /\ unhandled' = unhandled \cup {i}
            /\ UNCHANGED <<ops, pc>>
    /\ UNCHANGED <<now, lastMsgTime, buffer, returnMsgId, messageCount, chunk,
                   nowLocal, visible, nEvents, doneSeen, afterDone, received>>

Next ==
    \/ Fetched
    \/ FetchFailed
    \/ StreamFailed
    \/ \E d \in Deltas, e \in Elapsed : OnDeltaFits(d, e)
    \/ \E d \in Deltas, e \in Elapsed : OnDeltaOverflow(d, e)
    \/ \E l \in ReplyLatency : ReplySent(l)
    \/ ReplyFailed
    \/ OnDone
    \/ OnUnknown
    \/ \E e \in Elapsed : StreamEnd(e)
    \/ \E l \in TimerLatency : DelayOver(l)
    \/ \E i \in inflight : EditDone(i)
    \/ \E i \in inflight : EditFailed(i)

Spec == Init /\ [][Next]_vars

(* ------------------------- the relay on a script ----------------------- *)
\* the stream "Hello ", "world", done
HelloWorld ==
    << DeltaEvent(Str(<<"H", "e", "l", "l", "o", " ">>)),
       DeltaEvent(Str(<<"w", "o", "r", "l", "d">>)),
       DoneEvent >>

\* the limits of the relay: those of the example, and those of the program
Limits == { <<20, 5>>, <<charsInMessage, reservedChars>> }

InitScripted ==
    /\ InitRelay
    /\ InitBatch
    /\ InitTmpFiles
    /\ ChunkedCalled(<<>>, 1)
    /\ DeleteFileCalled(1, {}, FALSE)
    /\ Configured(Unset)
    /\ \E l \in Limits : Built(l[1], l[2], Scripted(HelloWorld))

\* the relay on the scripted source, with a gateway that carries out every
\* request
NextScripted ==
    \/ Fetched
    \/ \E i \in DOMAIN HelloWorld, e \in Elapsed :
          OnDeltaFits(HelloWorld[i].delta, e)
    \/ OnDone
    \/ \E e \in Elapsed : StreamEnd(e)
    \/ \E l \in TimerLatency : DelayOver(l)
    \/ \E i \in inflight : EditDone(i)

SpecScripted == InitScripted /\ [][NextScripted]_vars

(* ----------------------------- util.chunked ---------------------------- *)
RECURSIVE StringsOfLength(_)
\* the strings of n characters over "a", "b"
StringsOfLength(n) ==
    IF n = 0 THEN {<<>>}
    ELSE {Cat(s, Rep(c, 1)) : s \in StringsOfLength(n - 1), c \in {"a", "b"}}

\* the calls of chunked: every short string with every small chunk size, and
\* the transcripts with the size the batch sessions use
ChunkedInputs ==
    ((UNION {StringsOfLength(n) : n \in 0..MaxStrLen}) \X (1..MaxChunkSize))
        \cup (Transcripts \X {charsInMessage})

InitChunked ==
    /\ InitStream
    /\ InitBatch
    /\ InitTmpFiles
    /\ DeleteFileCalled(1, {}, FALSE)
    /\ Configured(Unset)
    /\ \E in \in ChunkedInputs : ChunkedCalled(in[1], in[2])

\* const numberOfChunks = Math.ceil(str.length / chunkSize); chunks = []; i = 0
ChunkedEnter ==
    /\ UNCHANGED <<svars, bvars, dvars, avars, tvars>>
    /\ cpc = "called"
    /\ numberOfChunks' = Ceil(StrLen(callStr), callSize)
    /\ pushed' = <<>>
    /\ loopI' = 0
    /\ cpc' = "loop"
    /\ UNCHANGED <<callStr, callSize>>

\* i < numberOfChunks: chunks.push(str.slice(i * chunkSize, (i + 1) * chunkSize)); i++
ChunkedPush ==
    /\ UNCHANGED <<svars, bvars, dvars, avars, tvars>>
    /\ cpc = "loop"
    /\ loopI < numberOfChunks
    /\ pushed' = Append(pushed, Slice(callStr, loopI * callSize,
                                      (loopI + 1) * callSize))
    /\ loopI' = loopI + 1
    /\ UNCHANGED <<cpc, callStr, callSize, numberOfChunks>>

\* the loop is over: return chunks
ChunkedReturn ==
    /\ UNCHANGED <<svars, bvars, dvars, avars, tvars>>
    /\ cpc = "loop"
    /\ ~(loopI < numberOfChunks)
    /\ cpc' = "returned"
    /\ UNCHANGED <<callStr, callSize, numberOfChunks, loopI, pushed>>

NextChunked == ChunkedEnter \/ ChunkedPush \/ ChunkedReturn

SpecChunked == InitChunked /\ [][NextChunked]_vars

(* ---------------------------- util.deleteFile -------------------------- *)
\* the file names of the temporary directory
Paths == 1..MaxFiles

InitDeleteFile ==
    /\ InitStream
    /\ InitBatch
    /\ InitTmpFiles
    /\ ChunkedCalled(<<>>, 1)
    /\ Configured(Unset)
    /\ \E path \in Paths, present \in SUBSET Paths, locked \in BOOLEAN :
          DeleteFileCalled(path, present, locked)

\* unlink(path): no such file, removal not permitted, or done
Unlink(path, present, locked) ==
    IF path \notin present THEN "ENOENT"
    ELSE IF locked THEN "EPERM"
    ELSE "ok"

\* DeleteFile with a catch clause that throws the error on
DeleteFileRethrows(result) == IF result = "ok" THEN "resolved" ELSE "rejected"

\* how the promise of deleteFile settles when unlink settled with `result`:
\* try { await unlink(filePath); log.deleted() } catch (error) { log.error(error) }
DeleteFile(result) == IF result = "ok" THEN "resolved" ELSE "resolved"

\* const log = logger.startFileDeleting(filePath); unlink(filePath) is awaited
DeleteFileEnter ==
    /\ UNCHANGED <<svars, bvars, cvars, avars, tvars>>
    /\ dpc = "called"
    /\ dpc' = "unlinking"
    /\ UNCHANGED <<unlinkPath, files, readOnly, unlinked>>

\* unlink settled: the file is gone when it succeeded, and deleteFile settles
DeleteFileSettle ==
    /\ UNCHANGED <<svars, bvars, cvars, avars, tvars>>
    /\ dpc = "unlinking"
    /\ unlinked' = Unlink(unlinkPath, files, readOnly)
    /\ files' = IF unlinked' = "ok" THEN files \ {unlinkPath} ELSE files
    /\ dpc' = DeleteFile(unlinked')
    /\ UNCHANGED <<unlinkPath, readOnly>>

NextDeleteFile == DeleteFileEnter \/ DeleteFileSettle

SpecDeleteFile == InitDeleteFile /\ [][NextDeleteFile]_vars

(* --------------------------- batch sessions ---------------------------- *)
\* cancellations.set(id, controller)
Registered(reg, id, s) ==
    [t \in DOMAIN reg \cup {id} |-> IF t = id THEN s ELSE reg[t]]

\* the registry cleared instead of one id deleted
UnregisteredAll(reg, id) == <<>>

\* cancellations.delete(id)
Unregistered(reg, id) == [t \in DOMAIN reg \ {id} |-> reg[t]]

\* a request of a batch session to the chat gateway
BRequest(op, msg, replyTo, text, html, role) ==
    [op |-> op, msg |-> msg, replyTo |-> replyTo, text |-> text,
     html |-> html, role |-> role]

\* chunks.shift() of an empty array
Undefined == << <<"undefined", 0>> >>

\* the catch clause never takes the cancellation branch
IsAbortErrorNever(name) == FALSE

\* IsAbortError taking every error for an abort
IsAbortErrorAlways(name) == TRUE

\* error.name === 'AbortError'
IsAbortError(name) == name = "AbortError"

\* `${returnMsg.text}\n<b>Stopped</b>`
StoppedText(text) == Cat(text, StoppedSuffix)

\* `Error processing message: ${error.message}`
ErrorText(message) == Cat(ErrorPrefix, message)

\* bot.on([':voice', ':video_note']): register the controller, send the
\* placeholder with its Stop button
Register(s, k, id) ==
    /\ UNCHANGED created
    /\ bpc[s] = "idle"
    /\ \A r \in Sessions : r < s => bpc[r] # "idle"
    /\ id <= s
    /\ kind' = [kind EXCEPT ![s] = k]
    /\ cancellationId' = [cancellationId EXCEPT ![s] = id]
    /\ cancellations' = Registered(cancellations, id, s)
    /\ bpc' = [bpc EXCEPT ![s] = "placeholder"]
    /\ UNCHANGED <<aborted, abortedAt, returnMsg, filePath, deleted, chunks,
                   bops, outcome, transcript, abortedAgain, nextMsgId>>

\* a voice message or video note arrives and the filter lets it through
\* (no allow-list is configured): the handler runs
Arrive(s, k, id) ==
    /\ UNCHANGED <<svars, cvars, dvars, avars, tvars>>
    /\ Register(s, k, id)

\* msg.text of the placeholder: what the platform shows of
\* `<em>Start transcribing...</em>`
PlaceholderText == Shown(StartText, TRUE)

\* ctx.reply resolved: transcribeMedia starts and awaits ctx.getFile()
PlaceholderSent(s) ==
    /\ UNCHANGED <<svars, cvars, dvars, avars, tvars>>
    /\ UNCHANGED created
    /\ bpc[s] = "placeholder"
    /\ returnMsg' = [returnMsg EXCEPT
                        ![s] = [id |-> nextMsgId, text |-> PlaceholderText]]
    /\ nextMsgId' = nextMsgId + 1
    /\ bpc' = [bpc EXCEPT ![s] = "getFile"]
    /\ UNCHANGED <<abortedAgain, kind, cancellationId, transcript, cancellations, aborted, abortedAt,
                   filePath, deleted, chunks, bops, outcome>>

\* ctx.reply rejected: the handler throws before transcribeMedia is called
PlaceholderFailed(s) ==
    /\ UNCHANGED <<svars, cvars, dvars, avars, tvars>>
    /\ UNCHANGED created
    /\ bpc[s] = "placeholder"
    /\ bpc' = [bpc EXCEPT ![s] = "crashed"]
    /\ UNCHANGED <<abortedAgain, kind, cancellationId, transcript, cancellations, aborted, abortedAt,
                   returnMsg, filePath, deleted, chunks, bops, outcome,
                   nextMsgId>>

\* the end of transcribeMedia: the edit of the catch clause if any, the
\* finally clause, then the .finally of the handler
Ended(s, how, requests) ==
    /\ bops' = [bops EXCEPT ![s] = @ \o requests]
    /\ deleted' = [deleted EXCEPT
                      ![s] = IF filePath[s] = "none" THEN @ ELSE @ \cup {filePath[s]}]
    /\ cancellations' = Unregistered(cancellations, cancellationId[s])
    /\ bpc' = [bpc EXCEPT ![s] = "ended"]
    /\ outcome' = [outcome EXCEPT ![s] = how]
    /\ UNCHANGED <<abortedAgain, kind, cancellationId, transcript, aborted, abortedAt, filePath, chunks>>

\* catch (error): the Stopped edit for an AbortError, the error edit otherwise
Caught(s, name) ==
    /\ IF IsAbortError(name)
       THEN Ended(s, "stopped",
                  <<BRequest("edit", returnMsg[s].id, 0,
                             StoppedText(returnMsg[s].text), TRUE, "stopped")>>)
       ELSE Ended(s, "error",
                  <<BRequest("edit", returnMsg[s].id, 0,
                             ErrorText(FailureMessage), FALSE, "error")>>)
    /\ UNCHANGED <<returnMsg, nextMsgId>>

\* every awaited call of transcribeMedia, as if all were given the signal
SignalAwareAll ==
    {"getFile", "download", "extract", "transcribe", "firstEdit", "sending"}

\* the awaited calls that are given the signal: util.download,
\* util.extractAudioFromVideo and transcribe
SignalAware == {"download", "extract", "transcribe"}

\* the file an awaited call writes: util.download writes the media to
\* join(tmpdir(), fileName), ffmpeg writes the audio to `${fileName}.m4a`
WrittenBy(stage) ==
    IF stage = "download" THEN "media"
    ELSE IF stage = "extract" THEN "audio"
    ELSE "none"

\* a call that rejects has written its file in part (partial) or not at all
LeftBehind(s, partial) ==
    /\ partial => WrittenBy(bpc[s]) # "none"
    /\ created' = [created EXCEPT
                      ![s] = IF partial THEN @ \cup {WrittenBy(bpc[s])} ELSE @]

\* an awaited call that was given the signal rejected because of the abort
Aborted(s, partial) ==
    /\ UNCHANGED <<svars, cvars, dvars, avars, tvars>>
    /\ bpc[s] \in SignalAware
    /\ aborted[s]
    /\ LeftBehind(s, partial)
    /\ Caught(s, "AbortError")

\* an awaited call failed
CallFailed(s, partial) ==
    /\ UNCHANGED <<svars, cvars, dvars, avars, tvars>>
    /\ bpc[s] \in {"getFile", "download", "extract", "transcribe", "firstEdit",
                   "sending"}
    /\ bpc[s] \in SignalAware => ~aborted[s]
    /\ LeftBehind(s, partial)
    /\ Caught(s, "Error")

\* ctx.getFile() resolved: util.download starts
GetFileDone(s) ==
    /\ UNCHANGED <<svars, cvars, dvars, avars, tvars>>
    /\ UNCHANGED created
    /\ bpc[s] = "getFile"
    /\ bpc' = [bpc EXCEPT ![s] = "download"]
    /\ UNCHANGED <<abortedAgain, kind, cancellationId, transcript, cancellations, aborted, abortedAt,
                   returnMsg, filePath, deleted, chunks, bops, outcome,
                   nextMsgId>>

\* util.download resolved
DownloadDone(s) ==
    /\ UNCHANGED <<svars, cvars, dvars, avars, tvars>>
    /\ bpc[s] = "download"
    /\ ~aborted[s]
    /\ created' = [created EXCEPT ![s] = @ \cup {WrittenBy("download")}]
    /\ filePath' = [filePath EXCEPT ![s] = "media"]
    /\ bpc' = [bpc EXCEPT
                  ![s] = IF kind[s] = "video_note" THEN "extract" ELSE "transcribe"]
    /\ UNCHANGED <<abortedAgain, kind, cancellationId, transcript, cancellations, aborted, abortedAt,
                   returnMsg, deleted, chunks, bops, outcome, nextMsgId>>

\* util.extractAudioFromVideo resolved: the video is deleted, the audio kept
ExtractDone(s) ==
    /\ UNCHANGED <<svars, cvars, dvars, avars, tvars>>
    /\ bpc[s] = "extract"
    /\ ~aborted[s]
    /\ created' = [created EXCEPT ![s] = @ \cup {WrittenBy("extract")}]
    /\ deleted' = [deleted EXCEPT ![s] = @ \cup {filePath[s]}]
    /\ filePath' = [filePath EXCEPT ![s] = "audio"]
    /\ bpc' = [bpc EXCEPT ![s] = "transcribe"]
    /\ UNCHANGED <<abortedAgain, kind, cancellationId, transcript, cancellations, aborted, abortedAt,
                   returnMsg, chunks, bops, outcome, nextMsgId>>

\* transcribe resolved: slice the text, edit the placeholder to the first slice
TranscribeDone(s, text) ==
    /\ UNCHANGED <<svars, cvars, dvars, avars, tvars>>
    /\ UNCHANGED created
    /\ bpc[s] = "transcribe"
    /\ ~aborted[s]
    /\ LET all == chunked(text, charsInMessage)
           first == IF all = <<>> THEN Undefined ELSE Head(all)
       IN  /\ chunks' = [chunks EXCEPT ![s] = IF all = <<>> THEN <<>> ELSE Tail(all)]
           /\ bops' = [bops EXCEPT
                          ![s] = Append(@, BRequest("edit", returnMsg[s].id, 0,
                                                    first, FALSE, "first"))]
    /\ transcript' = [transcript EXCEPT ![s] = text]
    /\ bpc' = [bpc EXCEPT ![s] = "firstEdit"]
    /\ UNCHANGED <<abortedAgain, kind, cancellationId, cancellations, aborted, abortedAt,
                   returnMsg, filePath, deleted, outcome, nextMsgId>>

\* bot.api.sendMessage of the next slice, as a reply to msg; the platform
\* gives the new message the next free identifier
SendNext(s, msg) ==
    /\ bops' = [bops EXCEPT
                   ![s] = Append(@, BRequest("send", nextMsgId, msg.id,
                                             Head(chunks[s]), FALSE, "slice"))]
    /\ nextMsgId' = nextMsgId + 1
    /\ chunks' = [chunks EXCEPT ![s] = Tail(@)]
    /\ bpc' = [bpc EXCEPT ![s] = "sending"]
    /\ UNCHANGED <<abortedAgain, kind, cancellationId, transcript,
                   cancellations, aborted, abortedAt, filePath, deleted,
                   outcome>>

\* the edit of the placeholder resolved (the platform takes no empty text)
FirstEditDone(s) ==
    /\ UNCHANGED <<svars, cvars, dvars, avars, tvars>>
    /\ UNCHANGED created
    /\ bpc[s] = "firstEdit"
    /\ StrLen(bops[s][Len(bops[s])].text) > 0
    /\ IF chunks[s] = <<>>
       THEN Ended(s, "success", <<>>) /\ UNCHANGED nextMsgId
       ELSE SendNext(s, returnMsg[s])
    /\ UNCHANGED returnMsg

\* bot.api.sendMessage resolved: returnMsg is the message just sent
SendDone(s) ==
    /\ UNCHANGED <<svars, cvars, dvars, avars, tvars>>
    /\ UNCHANGED created
    /\ bpc[s] = "sending"
    /\ returnMsg' = [returnMsg EXCEPT
                        ![s] = [id |-> bops[s][Len(bops[s])].msg,
                                text |-> bops[s][Len(bops[s])].text]]
    /\ IF chunks[s] = <<>>
       THEN Ended(s, "success", <<>>) /\ UNCHANGED nextMsgId
       ELSE SendNext(s, returnMsg'[s])

\* abort() of a controller that forgets an earlier abort
AbortToggled(was) == ~was

\* abortController.abort(): signal.aborted is true from then on
AbortSignalled(was) == TRUE

\* bot.on('callback_query:data'): the text the query is answered with
Answer(action, data) ==
    IF action = "stop"
    THEN IF data \in DOMAIN cancellations THEN "Stopped" ELSE "Error"
    ELSE "Not implemented"

\* bot.on('callback_query:data'): "stop:<id>" aborts the controller registered
\* under <id>; a query for an id that is not registered and a query with
\* another action are answered and change nothing
CallbackQuery(action, data) ==
    /\ UNCHANGED <<svars, cvars, dvars, avars, tvars>>
    /\ UNCHANGED created
    /\ IF Answer(action, data) = "Stopped"
       THEN LET s == cancellations[data]
            IN  /\ aborted' = [aborted EXCEPT ![s] = AbortSignalled(@)]
                /\ abortedAt' = [abortedAt EXCEPT
                                    ![s] = IF aborted[s] THEN @ ELSE bpc[s]]
                /\ abortedAgain' = [abortedAgain EXCEPT ![s] = @ \/ aborted[s]]
       ELSE UNCHANGED <<aborted, abortedAt, abortedAgain>>
    /\ UNCHANGED <<bpc, kind, cancellationId, transcript, cancellations,
                   returnMsg, filePath, deleted, chunks, bops, outcome,
                   nextMsgId>>

BatchNext ==
    \/ \E s \in Sessions, k \in {"voice", "video_note"}, id \in MsgIds :
          Arrive(s, k, id)
    \/ \E s \in Sessions : PlaceholderSent(s)
    \/ \E s \in Sessions : PlaceholderFailed(s)
    \/ \E s \in Sessions : GetFileDone(s)
    \/ \E s \in Sessions : DownloadDone(s)
    \/ \E s \in Sessions : ExtractDone(s)
    \/ \E s \in Sessions, text \in Transcripts : TranscribeDone(s, text)
    \/ \E s \in Sessions : FirstEditDone(s)
    \/ \E s \in Sessions : SendDone(s)
    \/ \E s \in Sessions, partial \in BOOLEAN : Aborted(s, partial)
    \/ \E s \in Sessions, partial \in BOOLEAN : CallFailed(s, partial)
    \/ \E action \in {"stop", "other"}, data \in MsgIds \cup {0} :
          CallbackQuery(action, data)

SpecBatch == Init /\ [][BatchNext]_vars

\* a collaborator call session s awaits returns or fails
Settles(s) ==
    \/ PlaceholderSent(s)
    \/ PlaceholderFailed(s)
    \/ GetFileDone(s)
    \/ DownloadDone(s)
    \/ ExtractDone(s)
    \/ \E text \in Transcripts : TranscribeDone(s, text)
    \/ FirstEditDone(s)
    \/ SendDone(s)
    \/ \E partial \in BOOLEAN : Aborted(s, partial)
    \/ \E partial \in BOOLEAN : CallFailed(s, partial)

\* one session on its own: the first message, with the Stop presses of its
\* chat
BatchNextAlone ==
    \/ \E k \in {"voice", "video_note"} : Arrive(1, k, 1)
    \/ PlaceholderSent(1)
    \/ PlaceholderFailed(1)
    \/ GetFileDone(1)
    \/ DownloadDone(1)
    \/ ExtractDone(1)
    \/ \E text \in Transcripts : TranscribeDone(1, text)
    \/ FirstEditDone(1)
    \/ SendDone(1)
    \/ \E partial \in BOOLEAN : Aborted(1, partial)
    \/ \E partial \in BOOLEAN : CallFailed(1, partial)
    \/ \E action \in {"stop", "other"}, data \in MsgIds \cup {0} :
          CallbackQuery(action, data)

\* that session when every call it awaits eventually returns or fails
SpecBatchFair == Init /\ [][BatchNextAlone]_vars /\ WF_vars(Settles(1))

(* ---------------------------- the allow-list --------------------------- *)
\* the characters CHATS_ALLOWLIST is made of here
EnvAlphabet == {"1", "2", ","}

RECURSIVE EnvStringsOfLength(_)
EnvStringsOfLength(n) ==
    IF n = 0 THEN {<<>>}
    ELSE {Cat(s, Rep(c, 1)) : s \in EnvStringsOfLength(n - 1), c \in EnvAlphabet}

\* the values of CHATS_ALLOWLIST: not set, or a short string (the empty one
\* included)
EnvValues ==
    {Unset} \cup {SetTo(str) : str \in UNION {EnvStringsOfLength(n) : n \in 0..MaxEnvLen}}

\* the chats messages come from
Chats == {1, 2, 12}

Digits == <<"0", "1", "2", "3", "4", "5", "6", "7", "8", "9">>

RECURSIVE NumberToString(_)
\* `${n}` of a number n >= 0
NumberToString(n) ==
    IF n < 10 THEN Rep(Digits[n + 1], 1)
    ELSE Cat(NumberToString(n \div 10), Rep(Digits[(n % 10) + 1], 1))

\* the position of the first sep in str from position i on, 0 when none
RECURSIVE IndexOf(_, _, _)
IndexOf(str, sep, i) ==
    IF i > StrLen(str) THEN 0
    ELSE IF Slice(str, i - 1, i) = Rep(sep, 1) THEN i
    ELSE IndexOf(str, sep, i + 1)

RECURSIVE Split(_, _)
\* str.split(sep)
Split(str, sep) ==
    LET i == IndexOf(str, sep, 1)
    IN  IF i = 0 THEN <<str>>
        ELSE <<Take(str, i - 1)>> \o Split(Drop(str, i), sep)

\* const allowedChats = chatsAllowlist?.split(',')
allowedChats ==
    IF chatsAllowlist.set
    THEN [set |-> TRUE, list |-> Split(chatsAllowlist.value, ",")]
    ELSE [set |-> FALSE, list |-> <<>>]

\* Passes letting every chat through
PassesAny(allowed, chat) == TRUE

\* allowedChats?.includes(`${ctx.chatId}`) ?? true
Passes(allowed, chat) ==
    IF allowed.set
    THEN \E i \in DOMAIN allowed.list : allowed.list[i] = NumberToString(chat)
    ELSE TRUE

InitAllowList ==
    /\ InitStream
    /\ InitBatch
    /\ InitTmpFiles
    /\ ChunkedCalled(<<>>, 1)
    /\ DeleteFileCalled(1, {}, FALSE)
    /\ \E env \in EnvValues : Configured(env)

\* bot.on([':voice', ':video_note']).filter(predicate, handler): a message of
\* chat `chat` arrives; the handler runs when the predicate holds
Dispatch(s, k, id, chat) ==
    /\ UNCHANGED <<svars, cvars, dvars, tvars>>
    /\ bpc[s] = "idle"
    /\ IF Passes(allowedChats, chat)
       THEN /\ Register(s, k, id)
            /\ chatId' = [chatId EXCEPT ![s] = chat]
            /\ UNCHANGED ignored
       ELSE /\ ignored' = ignored \cup {chat}
            /\ UNCHANGED <<bvars, chatId>>
    /\ UNCHANGED chatsAllowlist

NextAllowList ==
    \/ \E s \in Sessions, k \in {"voice", "video_note"}, id \in MsgIds,
          chat \in Chats : Dispatch(s, k, id, chat)
    \/ \E s \in Sessions : PlaceholderSent(s)
    \/ \E s \in Sessions : PlaceholderFailed(s)
    \/ \E s \in Sessions : GetFileDone(s)

SpecAllowList == InitAllowList /\ [][NextAllowList]_vars

(* ------------------ temporary files of batch sessions ------------------ *)
\* the stems of the file names the media URLs may end in
Stems == {"file_1", "file_2"}

\* the file names the media URLs may end in: the file of a voice message is
\* an .oga file, that of a video note an .mp4 file
MediaNames ==
    {[stem |-> n, ext |-> e, m4a |-> FALSE] : n \in Stems, e \in {"oga", "mp4"}}

\* url.split('/').pop()!.replace('.oga', '.ogg')
Renamed(name) == IF name.ext = "oga" THEN [name EXCEPT !.ext = "ogg"] ELSE name

\* join(tmpdir(), fileName) of util.download
DownloadPath(name) == Renamed(name)

\* join(tmpdir(), `${fileName}.m4a`) of util.extractAudioFromVideo
OutputPath(path) == [path EXCEPT !.m4a = TRUE]

\* 'video_note' in ctx.msg
IsVideoNote(s) == media[s].ext = "mp4"

\* the directory after `path` was created or overwritten with bytes of `from`
Written(dir, path, from) ==
    [p \in DOMAIN dir \cup {path} |-> IF p = path THEN from ELSE dir[p]]

\* the directory after unlink(path); a path that is not there changes nothing
Removed(dir, path) == [p \in DOMAIN dir \ {path} |-> dir[p]]

\* if (filePath) util.deleteFile(filePath): unlink is handed the path, nothing
\* waits for it
CleanedUp(s) ==
    unlinks' = IF localPath[s] = NoFile THEN unlinks
               ELSE unlinks \cup {localPath[s]}

\* a media message arrives and ctx.getFile() resolves with its file name:
\* util.download starts
MediaArrives(s, name) ==
    /\ UNCHANGED <<svars, bvars, cvars, dvars, avars>>
    /\ tpc[s] = "idle"
    /\ \A r \in Sessions : r < s => tpc[r] # "idle"
    /\ media' = [media EXCEPT ![s] = name]
    /\ tpc' = [tpc EXCEPT ![s] = "download"]
    /\ UNCHANGED <<localPath, tmp, unlinks>>

\* util.download resolved: writeFile has put the body at the download path
Downloaded(s) ==
    /\ UNCHANGED <<svars, bvars, cvars, dvars, avars>>
    /\ tpc[s] = "download"
    /\ tmp' = Written(tmp, DownloadPath(media[s]), s)
    /\ localPath' = [localPath EXCEPT ![s] = DownloadPath(media[s])]
    /\ tpc' = [tpc EXCEPT ![s] = IF IsVideoNote(s) THEN "extract" ELSE "transcribe"]
    /\ UNCHANGED <<media, unlinks>>

\* util.download rejected (failure or abort), the file written in part or
\* not at all; filePath is still undefined, so nothing is deleted
DownloadBroken(s, partial) ==
    /\ UNCHANGED <<svars, bvars, cvars, dvars, avars>>
    /\ tpc[s] = "download"
    /\ tmp' = IF partial THEN Written(tmp, DownloadPath(media[s]), s) ELSE tmp
    /\ CleanedUp(s)
    /\ tpc' = [tpc EXCEPT ![s] = "over"]
    /\ UNCHANGED <<media, localPath>>

\* util.extractAudioFromVideo resolved: ffmpeg read the input, which has to
\* exist, and wrote the output over whatever was there (-y); the video is
\* handed to deleteFile and filePath becomes the output
Extracted(s) ==
    /\ UNCHANGED <<svars, bvars, cvars, dvars, avars>>
    /\ tpc[s] = "extract"
    /\ localPath[s] \in DOMAIN tmp
    /\ tmp' = Written(tmp, OutputPath(localPath[s]), tmp[localPath[s]])
    /\ unlinks' = unlinks \cup {localPath[s]}
    /\ localPath' = [localPath EXCEPT ![s] = OutputPath(@)]
    /\ tpc' = [tpc EXCEPT ![s] = "transcribe"]
    /\ UNCHANGED media

\* util.extractAudioFromVideo rejected (ffmpeg failed, input missing, abort),
\* the output written in part or not at all; the finally clause deletes the
\* video
ExtractBroken(s, partial) ==
    /\ UNCHANGED <<svars, bvars, cvars, dvars, avars>>
    /\ tpc[s] = "extract"
    /\ partial => localPath[s] \in DOMAIN tmp
    /\ tmp' = IF partial
              THEN Written(tmp, OutputPath(localPath[s]), tmp[localPath[s]])
              ELSE tmp
    /\ CleanedUp(s)
    /\ tpc' = [tpc EXCEPT ![s] = "over"]
    /\ UNCHANGED <<media, localPath>>

\* transcribe resolved: createReadStream(audioFilePath) opened the file,
\* which has to exist; after the deliveries the finally clause deletes it
AudioTranscribed(s) ==
    /\ UNCHANGED <<svars, bvars, cvars, dvars, avars>>
    /\ tpc[s] = "transcribe"
    /\ localPath[s] \in DOMAIN tmp
    /\ CleanedUp(s)
    /\ tpc' = [tpc EXCEPT ![s] = "over"]
    /\ UNCHANGED <<media, localPath, tmp>>

\* transcribe rejected (provider failure, file missing, abort): the finally
\* clause deletes the file
TranscribeBroken(s) ==
    /\ UNCHANGED <<svars, bvars, cvars, dvars, avars>>
    /\ tpc[s] = "transcribe"
    /\ CleanedUp(s)
    /\ tpc' = [tpc EXCEPT ![s] = "over"]
    /\ UNCHANGED <<media, localPath, tmp>>

\* an unlink that util.deleteFile started is carried out
Unlinked(path) ==
    /\ UNCHANGED <<svars, bvars, cvars, dvars, avars>>
    /\ path \in unlinks
    /\ tmp' = Removed(tmp, path)
    /\ unlinks' = unlinks \ {path}
    /\ UNCHANGED <<tpc, media, localPath>>

NextTmpFiles ==
    \/ \E s \in Sessions, name \in MediaNames : MediaArrives(s, name)
    \/ \E s \in Sessions : Downloaded(s)
    \/ \E s \in Sessions, partial \in BOOLEAN : DownloadBroken(s, partial)
    \/ \E s \in Sessions : Extracted(s)
    \/ \E s \in Sessions, partial \in BOOLEAN : ExtractBroken(s, partial)
    \/ \E s \in Sessions : AudioTranscribed(s)
    \/ \E s \in Sessions : TranscribeBroken(s)
    \/ \E path \in unlinks : Unlinked(path)

SpecTmpFiles == Init /\ [][NextTmpFiles]_vars

(* ------------------------- observing the relay ------------------------- *)
Max(S) == CHOOSE x \in S : \A y \in S : y <= x

\* the requests issued for message m: the send that creates it, its edits
OpsOn(m) == {i \in DOMAIN ops : ops[i].msg = m}

\* the text of the last request issued for message m
LastTextOf(m) == IF OpsOn(m) = {} THEN StartText ELSE ops[Max(OpsOn(m))].text

RECURSIVE Joined(_)
\* the last texts of messages 1..m, joined in the order of creation
Joined(m) == IF m = 0 THEN <<>> ELSE Cat(Joined(m - 1), LastTextOf(m))

FinalOps == {i \in DOMAIN ops : ops[i].role = "final"}

(* ----------------------- observing batch sessions ---------------------- *)
\* the requests of session s that carry a slice of the transcript
SliceRequests(s) ==
    SelectSeq(bops[s], LAMBDA r : r.role \in {"first", "slice"})

\* the texts of a sequence of requests
TextsOf(reqs) == [i \in DOMAIN reqs |-> reqs[i].text]

\* the stages of transcribeMedia after `transcribe` has resolved
AfterTranscript == {"firstEdit", "sending"}

\* what session s has sent is the beginning of the slices of its transcript,
\* all of them when it ended in success, and apart from the slices it issued
\* at most the error edit it ended with
DeliveredAsSliced(s) ==
    LET sent == TextsOf(SliceRequests(s))
        all == chunked(transcript[s], charsInMessage)
    IN  /\ Len(sent) <= Len(all)
        /\ sent = SubSeq(all, 1, Len(sent))
        /\ outcome[s] = "success" => sent = all
        /\ \A i \in DOMAIN bops[s] :
              \/ bops[s][i].role \in {"first", "slice"}
              \/ /\ bops[s][i].role = "error"
                 /\ i = Len(bops[s])
                 /\ outcome[s] = "error"

\* session s has been created and transcribeMedia has not ended for it
InFlight(s) ==
    bpc[s] \in {"placeholder", "getFile", "download", "extract", "transcribe",
                "firstEdit", "sending"}

\* session s is over: transcribeMedia ended, or the handler threw
Completed(s) == bpc[s] \in {"ended", "crashed"}

\* the registry holds the controller of session s under the id of s
HasEntry(s) ==
    /\ cancellationId[s] \in DOMAIN cancellations
    /\ cancellations[cancellationId[s]] = s

\* the Stopped edits session s has issued
StoppedEdits(s) == {i \in DOMAIN bops[s] : bops[s][i].role = "stopped"}

RECURSIVE Concat(_)
\* the strings of a sequence joined in order
Concat(ss) == IF ss = <<>> THEN <<>> ELSE Cat(Head(ss), Concat(Tail(ss)))

\* the slice requests of session s follow the slices of its transcript: the
\* first is an edit, every later one a send that replies to the message of
\* the one before it, the k-th carries the k-th slice, and a session that
\* ended in success has issued them all
SlicesInOrder(s) ==
    LET reqs == SliceRequests(s)
        all == chunked(transcript[s], charsInMessage)
    IN  /\ Len(reqs) <= Len(all)
        /\ \A k \in DOMAIN reqs :
              /\ reqs[k].text = all[k]
              /\ StrLen(reqs[k].text) <= charsInMessage
              /\ IF k = 1
                 THEN reqs[k].op = "edit"
                 ELSE /\ reqs[k].op = "send"
                      /\ reqs[k].replyTo = reqs[k - 1].msg
                      /\ \A j \in 1..(k - 1) : reqs[j].msg # reqs[k].msg
        /\ bpc[s] = "firstEdit" => reqs[1].msg = returnMsg[s].id
        /\ bpc[s] = "sending" => reqs[Len(reqs)].replyTo = returnMsg[s].id
        /\ outcome[s] = "success" =>
              /\ Len(reqs) = Len(all)
              /\ Concat(TextsOf(reqs)) = transcript[s]

\* the error edits session s has issued
ErrorEdits(s) == {i \in DOMAIN bops[s] : bops[s][i].role = "error"}

\* a collaborator call of session s failed: an awaited call of
\* transcribeMedia, or the placeholder send of the handler
Failed(s) == bpc[s] = "crashed" \/ outcome[s] = "error"

(* ------------------------- streaming relay ----------------------------- *)

C2_WithinLimit ==
    \A i \in DOMAIN ops : StrLen(ops[i].text) <= charsInMessage

\* C3: in every state the buffer leaves room for the status suffix:
\* buffer.length + reservedChars <= charsInMessage.
C3_BufferBudget == StrLen(buffer) + reservedChars <= charsInMessage

\* C4: the step that handles a delta issues the send of a new message if and
\* only if buffer.length + delta.length + reservedChars > charsInMessage; when
\* the delta fits, nothing is sent and the live message stays the same.
C4_RotationIff ==
    [][ (nEvents' = nEvents + 1 /\ chunk'.type = "transcript.text.delta") =>
          LET over == StrLen(buffer) + StrLen(chunk'.delta) + reservedChars
                        > charsInMessage
              sent == /\ Len(ops') = Len(ops) + 1
                      /\ ops'[Len(ops')].op = "send"
          IN  /\ sent <=> over
              /\ ~over => /\ returnMsgId' = returnMsgId
                          /\ messageCount' = messageCount
                          /\ \A i \in DOMAIN ops' \ DOMAIN ops :
                                ops'[i].op # "send" ]_vars

C4_Witness ==
    /\ pc = "reply"
    /\ buffer # <<>>
    /\ StrLen(chunk.delta) + reservedChars <= charsInMessage

\* C5: whenever the send of a continuation message is issued, the closing
\* edit of the message it replies to has been issued before it.
C5_ClosedBeforeOpened ==
    \A i \in DOMAIN ops :
        ops[i].op = "send" =>
            \E j \in 1..(i - 1) : /\ ops[j].op = "edit"
                                  /\ ops[j].role = "closing"
                                  /\ ops[j].msg = ops[i].replyTo

\* C6: no two edits of the same message are outstanding at the same time.
C6_OneOutstandingEdit ==
    \A i, j \in inflight :
        (i # j /\ ops[i].op = "edit" /\ ops[j].op = "edit")
            => ops[i].msg # ops[j].msg

\* C7: before the loop is left no final edit is issued; after it exactly one
\* is, it is the last request of the relay (when it is rejected the relay
\* throws and the error edit of the driver follows it), it edits the live
\* message to exactly the buffer, without suffix, no earlier than
\* messagesDelay after lastMsgTime, and the relay is over when, and only
\* when, it has settled.
C7_FinalFlush ==
    /\ pc \in {"fetch", "loop", "reply", "delay"} => FinalOps = {}
    /\ pc = "threw" => FinalOps \subseteq {Len(ops) - 1}
    /\ pc \in {"final", "returned"} => FinalOps = {Len(ops)}
    /\ \A f \in FinalOps :
          /\ ops[f].op = "edit"
          /\ ops[f].msg = returnMsgId
          /\ ops[f].text = buffer
          /\ ~ops[f].html
          /\ ops[f].at >= lastMsgTime + messagesDelay
          /\ (pc = "final") <=> (f \in inflight)

C7_Witness ==
    /\ pc = "returned"
    /\ messageCount >= 2
    /\ ops[Len(ops)].at = lastMsgTime + messagesDelay

C9_MarkerEndsLoop ==
    [][ doneSeen => /\ buffer' = buffer
                    /\ \A i \in DOMAIN ops' \ DOMAIN ops :
                          ops'[i].role \in {"final", "error"} ]_vars

(* --------------------------- batch sessions ---------------------------- *)

\* C10: a session whose signal was aborted while it awaited the download, the
\* extraction or the provider call does not get past that call, issues
\* nothing while the call is still pending, and ends having issued exactly
\* one request: the edit of the live message to the text it shows (the
\* placeholder) followed by the Stopped marker.
C10_StoppedOnce ==
    \A s \in Sessions :
        abortedAt[s] \in {"download", "extract", "transcribe"} =>
            /\ bpc[s] \in {abortedAt[s], "ended"}
            /\ bpc[s] = abortedAt[s] => bops[s] = <<>>
            /\ bpc[s] = "ended" =>
                  /\ outcome[s] = "stopped"
                  /\ Len(bops[s]) = 1
                  /\ bops[s][1].op = "edit"
                  /\ bops[s][1].msg = returnMsg[s].id
                  /\ bops[s][1].html
                  /\ bops[s][1].text = Cat(ParseHtml(StartText), StoppedSuffix)

C10_Witness ==
    \E s \in Sessions :
        /\ abortedAt[s] = "transcribe"
        /\ kind[s] = "video_note"
        /\ bpc[s] = "ended"

\* C11: a Stop press that arrives after `transcribe` has resolved changes
\* nothing: the session issues no Stopped edit and does not end as stopped,
\* and its requests are those of a session that was never cancelled: the
\* slices of the transcript in order, all of them when it ends in success.
C11_LateStopIsNoOp ==
    \A s \in Sessions :
        /\ abortedAt[s] \in AfterTranscript =>
              /\ outcome[s] # "stopped"
              /\ transcript[s] # <<>> => DeliveredAsSliced(s)
        /\ (~aborted[s] /\ transcript[s] # <<>>) => DeliveredAsSliced(s)

C11_Witness ==
    \E s \in Sessions :
        /\ abortedAt[s] = "sending"
        /\ outcome[s] = "success"
        /\ Len(bops[s]) = 3

\* C12: in every state the registry holds the entry of a session if and only
\* if the session is in flight.
C12_EntryIffInFlight == \A s \in Sessions : HasEntry(s) <=> InFlight(s)

\* C13: the entry of a session that is over has been removed, whichever way
\* the session ended, and when no session is in flight the registry is empty.
C13_RemovedOnEveryExit ==
    /\ \A s \in Sessions : Completed(s) => ~HasEntry(s)
    /\ (\A s \in Sessions : ~InFlight(s)) => cancellations = <<>>

\* C14: registering never replaces an entry: an id that stays in the registry
\* keeps the controller it was registered with.
C14_RegisterNeverReplaces ==
    [][ \A t \in DOMAIN cancellations \cap DOMAIN cancellations' :
            cancellations'[t] = cancellations[t] ]_vars

\* C15: a step changes the registry entry of an id (adds, removes or replaces
\* it) or aborts the controller registered under it only when the step is a
\* registry operation for that very id: the arrival of a message with that
\* id, the end of a session registered with it, or a Stop press carrying it.
C15_IndependentTokens ==
    [][ \A b \in MsgIds :
          LET had == b \in DOMAIN cancellations
              has == b \in DOMAIN cancellations'
              touched ==
                \/ had # has
                \/ /\ had /\ has
                   /\ \/ cancellations'[b] # cancellations[b]
                      \/ aborted'[cancellations[b]] # aborted[cancellations[b]]
          IN  touched =>
                \/ \E s \in Sessions, k \in {"voice", "video_note"} :
                      Arrive(s, k, b)
                \/ \E s \in Sessions : /\ bpc[s] # "ended"
                                        /\ bpc'[s] = "ended"
                                        /\ cancellationId[s] = b
                \/ CallbackQuery("stop", b) ]_vars

C15_Witness ==
    \E s, r \in Sessions :
        /\ cancellationId[s] # cancellationId[r]
        /\ outcome[s] = "stopped"
        /\ InFlight(r) /\ HasEntry(r) /\ ~aborted[r]
        /\ bpc[r] = "transcribe"

\* C16: a Stop press for an id that is not registered is answered 'Error' and
\* changes nothing; one for a registered id is answered 'Stopped' and leaves
\* the signal of the controller registered under it aborted, and that of no
\* other controller changed; a signal once aborted stays aborted; pressing
\* Stop again for a session already cancelled changes nothing else, and no
\* session ever issues a second Stopped edit.
C16_CancelIdempotent ==
    [][ /\ \A d \in MsgIds \cup {0} :
              CallbackQuery("stop", d) =>
                  /\ IF d \in DOMAIN cancellations
                     THEN /\ Answer("stop", d) = "Stopped"
                          /\ aborted'[cancellations[d]]
                          /\ \A s \in Sessions \ {cancellations[d]} :
                                aborted'[s] = aborted[s]
                     ELSE /\ Answer("stop", d) = "Error"
                          /\ aborted' = aborted
                  /\ UNCHANGED <<bpc, cancellations, cancellationId, returnMsg,
                                 filePath, deleted, chunks, bops, outcome,
                                 transcript, nextMsgId>>
        /\ \A s \in Sessions :
              /\ aborted[s] => aborted'[s]
              /\ Cardinality(StoppedEdits(s)') <= 1 ]_vars

C16_Witness ==
    \E s \in Sessions :
        /\ abortedAgain[s]
        /\ abortedAt[s] = "download"
        /\ outcome[s] = "stopped"
        /\ Len(bops[s]) = 1

(* ----------------------------- util.chunked ---------------------------- *)

C18_SlicesInOrder ==
    \A s \in Sessions : SliceRequests(s) # <<>> => SlicesInOrder(s)

(* ------------------------- streaming relay ----------------------------- *)

\* C19: the error edit issued after a failure of the fetch or of the event
\* stream is an edit of the live message, the one opened last.
C19_ErrorOnLiveMessage ==
    \A i \in DOMAIN ops : ops[i].role = "error" => ops[i].msg = returnMsgId

(* --------------------------- batch sessions ---------------------------- *)

\* C20: a session in which a collaborator call failed is over and has issued
\* exactly one error edit, as its last request (nothing is tried again after
\* the failure); a session in which none failed has issued no error edit.
C20_OneErrorEdit ==
    \A s \in Sessions :
        /\ Failed(s) => /\ Completed(s)
                        /\ ErrorEdits(s) = {Len(bops[s])}
        /\ ~Failed(s) => ErrorEdits(s) = {}

(* ---------------------- failures and temporary files ------------------- *)

\* C21: no failure of a call a session issued becomes an unhandled
\* rejection: every rejected request of the relay has a handler.
C21_NoUnhandledRejection == unhandled = {}

\* C22: when a session is over, deleteFile has been called for every
\* temporary file its calls wrote, the partly written ones included.
C22_EveryTempFileDeleted ==
    \A s \in Sessions : Completed(s) => created[s] \subseteq deleted[s]

\* C23: the promise of deleteFile is never rejected: when unlink has
\* settled, with success or with an error, it is resolved; a failed unlink
\* leaves the files as they were.
C23_DeleteFileNeverRejects ==
    /\ dpc \in {"called", "unlinking", "resolved"}
    /\ unlinked # "none" <=> dpc = "resolved"
    /\ unlinked = "ok" => unlinkPath \notin files
    /\ unlinked = "EPERM" => unlinkPath \in files

C23_Witness ==
    /\ dpc = "resolved"
    /\ unlinked = "EPERM"

Created(s) == bpc[s] # "idle"

\* chat c is one of the comma-separated entries of the configured list
Listed(c) ==
    \E i \in DOMAIN allowedChats.list : allowedChats.list[i] = NumberToString(c)

\* C25: a session exists only for a message of a chat that is on the
\* allow-list or when no allow-list is configured; without an allow-list no
\* message is kept from the handler; a chat whose message was kept from the
\* handler is not on the configured list, and there is no session for it,
\* hence no registry entry and no message.
C25_OnlyAllowedChats ==
    /\ \A s \in Sessions :
          Created(s) => /\ chatId[s] \in Chats
                        /\ ~chatsAllowlist.set \/ Listed(chatId[s])
    /\ \A s \in Sessions : ~Created(s) => chatId[s] = 0
    /\ ~chatsAllowlist.set => ignored = {}
    /\ \A c \in ignored :
          /\ ~Listed(c)
          /\ \A s \in Sessions : chatId[s] # c
    /\ (\A s \in Sessions : ~Created(s)) =>
          /\ cancellations = <<>>
          /\ nextMsgId = 1

C25_Witness ==
    /\ chatsAllowlist = SetTo(Str(<<"1", ",", "2">>))
    /\ 12 \in ignored
    /\ chatId[1] = 2
    /\ returnMsg[1].id = 1

(* ------------------------- streaming relay ----------------------------- *)

\* what the platform shows of the progress suffix
ProgressMark == ParseHtml(GeneratingSuffix)

\* message m shows in-progress text: the placeholder, or a text that ends
\* with the progress suffix
ShowsProgress(m) ==
    \/ visible[m] = ParseHtml(StartText)
    \/ /\ StrLen(visible[m]) >= StrLen(ProgressMark)
       /\ Drop(visible[m], StrLen(visible[m]) - StrLen(ProgressMark)) = ProgressMark

\* message m is live: it shows in-progress text and an edit of it is still to
\* come (it is the message the relay edits, or an edit of it is in flight)
Live(m) ==
    /\ ShowsProgress(m)
    /\ m = returnMsgId \/ \E i \in inflight : ops[i].op = "edit" /\ ops[i].msg = m

\* C26: at most one message of the session is live, and a message other than
\* the one the relay edits no longer shows in-progress text.
C26_OneLiveMessage ==
    /\ Cardinality({m \in DOMAIN visible : Live(m)}) <= 1
    /\ \A m \in DOMAIN visible : m # returnMsgId => ~ShowsProgress(m)

\* "Hello world"
HelloWorldText == Cat(HelloWorld[1].delta, HelloWorld[2].delta)

\* C27: on the stream "Hello ", "world", done, with limits 20 and 5 (and with
\* those of the program), the buffer never exceeds 15 characters, every
\* delta fits so that no continuation is opened and every request is an edit
\* of the one message, and the final edit gives it exactly "Hello world",
\* which is what the message shows when no paced edit was issued.
C27_HelloWorld ==
    /\ StrLen(buffer) <= 15
    /\ messageCount = 1
    /\ returnMsgId = placeholderMsgId
    /\ DOMAIN visible = {placeholderMsgId}
    /\ \A i \in DOMAIN ops : ops[i].op = "edit" /\ ops[i].msg = placeholderMsgId
    /\ \A i \in DOMAIN HelloWorld :
          pc = "loop" /\ nEvents = i - 1 => Fits(buffer, HelloWorld[i].delta)
    /\ pc \in {"final", "returned"} =>
          /\ buffer = HelloWorldText
          /\ ops[Len(ops)].role = "final"
          /\ ops[Len(ops)].text = HelloWorldText
          /\ \A i \in 1..(Len(ops) - 1) : ops[i].role = "paced"
    /\ pc = "returned" /\ Len(ops) = 1 => visible[placeholderMsgId] = HelloWorldText

C27_Witness ==
    /\ maxMessageLength = 20
    /\ reservedSuffixLength = 5
    /\ pc = "returned"
    /\ Len(ops) = 3
    /\ inflight = {}
    /\ visible[placeholderMsgId] = HelloWorldText

\* the step delivers a delta that alone is longer than the room of a message
\* while the buffer is empty
OversizedArrives ==
    /\ nEvents' = nEvents + 1
    /\ chunk'.type = "transcript.text.delta"
    /\ buffer = <<>>
    /\ StrLen(chunk'.delta) > charsInMessage - reservedChars

\* C28: a delta longer than charsInMessage - reservedChars that arrives while
\* the buffer is empty makes the relay send a continuation at once, as a
\* reply to the live message, with the delta and the progress suffix; when
\* the send has resolved the previous message gets a closing edit with the
\* empty buffer as its text, the continuation is the live message and the
\* buffer is the delta.
C28_OversizedDelta ==
    [][ /\ OversizedArrives =>
              /\ pc' = "reply"
              /\ Len(ops') = Len(ops) + 1
              /\ ops'[Len(ops')].op = "send"
              /\ ops'[Len(ops')].replyTo = returnMsgId
              /\ ops'[Len(ops')].text = Cat(chunk'.delta, GeneratingSuffix)
              /\ ops'[Len(ops')].html
              /\ UNCHANGED <<buffer, returnMsgId, messageCount>>
        /\ pc = "reply" /\ pc' = "loop" /\ buffer = <<>> =>
              /\ Len(ops') = Len(ops) + 1
              /\ ops'[Len(ops')].op = "edit"
              /\ ops'[Len(ops')].msg = returnMsgId
              /\ ops'[Len(ops')].text = <<>>
              /\ returnMsgId' = ops[Len(ops)].msg
              /\ returnMsgId' # returnMsgId
              /\ messageCount' = messageCount + 1
              /\ buffer' = chunk.delta
              /\ visible'[returnMsgId'] = Shown(Cat(chunk.delta, GeneratingSuffix), TRUE) ]_vars

C28_Witness ==
    /\ pc = "loop"
    /\ nEvents = 1
    /\ Len(ops) = 2
    /\ ops[1].op = "send"
    /\ ops[2].role = "closing"
    /\ ops[2].text = <<>>
    /\ StrLen(buffer) > charsInMessage - reservedChars

\* the requests the step issues
Issued == {i \in DOMAIN ops' : i \notin DOMAIN ops}

\* the step delivers an event to the loop
Arrival == nEvents' = nEvents + 1

\* C29: the relay issues requests only when an event makes it: a paced edit
\* or a continuation send is issued in the step that takes a delta from the
\* source, at the time of that step; a closing edit when the continuation
\* send of such a delta resolves; the marker and other events issue
\* nothing; and while the relay waits in the loop for the next event no step
\* (a request settling, time passing) issues anything.  The final edit comes
\* after the loop.
C29_DemandDriven ==
    [][ /\ \A i \in Issued :
              /\ ops'[i].role \in {"paced", "open"} =>
                    /\ Arrival
                    /\ chunk'.type = "transcript.text.delta"
                    /\ ops'[i].at = now'
              /\ ops'[i].role = "closing" => pc = "reply" /\ ~Arrival
              /\ ops'[i].role = "final" => pc \in {"loop", "delay"} /\ pc' = "final"
        /\ Cardinality(Issued) <= 1
        /\ Arrival /\ chunk'.type # "transcript.text.delta" => Issued = {}
        /\ ~Arrival /\ pc = "loop" /\ pc' = "loop" => Issued = {} ]_vars

C29_Witness ==
    /\ pc = "loop"
    /\ nEvents = 2
    /\ chunk.type = "transcript.text.done"
    /\ Len(ops) = 1
    /\ ops[1].role = "paced"
    /\ ops[1].at = messagesDelay + 1
    /\ inflight = {}

\* the step delivers a delta that fits into the live message
FittingArrives ==
    /\ Arrival
    /\ chunk'.type = "transcript.text.delta"
    /\ StrLen(buffer) + StrLen(chunk'.delta) + reservedChars <= charsInMessage

\* C30: a fitting delta is appended to the buffer.  When at most
\* messagesDelay has passed since lastMsgTime that is all: no request is
\* issued and lastMsgTime, returnMsgId and messageCount are unchanged.  When
\* more has passed, exactly one request is issued, the edit of the live
\* message to the new buffer with the progress suffix, and lastMsgTime
\* becomes the time of the step.
C30_FittingDelta ==
    [][ FittingArrives =>
          /\ buffer' = Cat(buffer, chunk'.delta)
          /\ UNCHANGED <<pc, returnMsgId, messageCount, visible>>
          /\ IF now' - lastMsgTime <= messagesDelay
             THEN UNCHANGED <<ops, inflight, lastMsgTime>>
             ELSE /\ Len(ops') = Len(ops) + 1
                  /\ SubSeq(ops', 1, Len(ops)) = ops
                  /\ ops'[Len(ops')].op = "edit"
                  /\ ops'[Len(ops')].msg = returnMsgId
                  /\ ops'[Len(ops')].text = Cat(buffer', GeneratingSuffix)
                  /\ ops'[Len(ops')].html
                  /\ inflight' = inflight \cup {Len(ops')}
                  /\ lastMsgTime' = now' ]_vars

C30_Witness ==
    /\ pc = "loop"
    /\ nEvents = 2
    /\ chunk.type = "transcript.text.delta"
    /\ Len(ops) = 1
    /\ ops[1].role = "paced"
    /\ ops[1].at = messagesDelay + messagesDelay + 1
    /\ lastMsgTime = ops[1].at
    /\ StrLen(buffer) = 2

(* --------------------------- batch sessions ---------------------------- *)

\* session s is over in one of the three ways: all slices delivered, the
\* error edit issued, or the Stopped edit issued; and the registry no longer
\* resolves its id to it
EndedProperly(s) ==
    /\ bpc[s] = "ended"
    /\ outcome[s] \in {"success", "error", "stopped"}
    /\ outcome[s] = "error" <=> ErrorEdits(s) # {}
    /\ outcome[s] = "stopped" <=> StoppedEdits(s) # {}
    /\ ~HasEntry(s)

\* C31: when every awaited call eventually returns or fails, every session
\* that was started (its controller registered) eventually is over in exactly
\* one of the three ways, with its registry entry gone.
C31_EverySessionEnds == (bpc[1] # "idle") ~> EndedProperly(1)

(* ------------------------- texts of the requests ------------------------ *)
\* C32: no request of the relay, edit or send, carries an empty text, whatever
\* the events are: also when the marker comes before any delta and when the
\* first delta does not fit.
C32_NoEmptyText == \A i \in DOMAIN ops : StrLen(ops[i].text) > 0

(* --------------------------- batch sessions ---------------------------- *)
\* the provider call of session s resolved, and with it the download and,
\* for a video note, the extraction before it
Transcribed(s) == SliceRequests(s) # <<>>

\* the gateway turned down a delivery request of session s that carried a
\* text: a failure of the gateway, not of the calls that made the transcript
DeliveryRefused(s) ==
    LET reqs == SliceRequests(s)
    IN  /\ outcome[s] = "error"
        /\ reqs # <<>>
        /\ StrLen(reqs[Len(reqs)].text) > 0

\* C33: a session whose download, extraction and provider call all succeeded,
\* whatever the transcript (the empty one too), and whose deliveries the
\* gateway accepted, ends in success and issues no error edit.
C33_SuccessForEveryTranscript ==
    \A s \in Sessions :
        (bpc[s] = "ended" /\ Transcribed(s) /\ ~DeliveryRefused(s)) =>
            /\ outcome[s] = "success"
            /\ ErrorEdits(s) = {}

(* ------------------- relay and batch sessions together ------------------ *)
\* request i of the relay is the closing edit of a message that was rotated
\* away: the message has its final text
Closes(i) == ops[i].role = "closing"

\* request i of batch session s delivered a slice in full: the awaited call
\* resolved, as the session went on to the next slice or ended in success
SliceDelivered(s, i) ==
    /\ bops[s][i].role \in {"first", "slice"}
    /\ \/ i < Len(bops[s]) /\ bops[s][i + 1].role = "slice"
       \/ i = Len(bops[s]) /\ outcome[s] = "success"

\* the relay never edits a message after that message's closing edit
ClosedKept ==
    \A i, j \in DOMAIN ops :
        (i < j /\ Closes(i) /\ ops[j].op = "edit") => ops[j].msg # ops[i].msg

\* a batch session never edits a message that holds a delivered slice
SlicesKept ==
    \A s \in Sessions : \A i, j \in DOMAIN bops[s] :
        (i < j /\ SliceDelivered(s, i) /\ bops[s][j].op = "edit") =>
            bops[s][j].msg # bops[s][i].msg

\* C34: a message that has its final transcript text (a rotated message after
\* its closing edit in the relay, a message holding a delivered slice in batch
\* mode) is the target of no later edit of the session, error and Stopped
\* edits included.
C34_DeliveredTextKept == ClosedKept /\ SlicesKept

(* --------------------------- batch sessions ---------------------------- *)
\* the Stop button of session s is on screen: its placeholder was sent and
\* transcribeMedia has not ended
StopShown(s) == InFlight(s) /\ bpc[s] # "placeholder"

\* C35: while a session is in flight with its Stop button shown, the id on
\* that button resolves to the session's own controller, whatever other
\* sessions do, those with the same message id in another chat included: so a
\* Stop press aborts no other session and the end of one session removes the
\* entry of no other.
C35_StopResolvesOwnHandle == \A s \in Sessions : StopShown(s) => HasEntry(s)

(* ------------------ temporary files of batch sessions ------------------ *)
\* session s holds a file it is about to extract from or to transcribe
Uses(s) == tpc[s] \in {"extract", "transcribe"}

\* the file session s holds is in the directory with the bytes s put there
OwnFileIntact(s) ==
    /\ localPath[s] \in DOMAIN tmp
    /\ tmp[localPath[s]] = s

\* C36: the file a session is about to extract from or to transcribe is in
\* the temporary directory and holds that session's own bytes: no download
\* and no cleanup of another session has replaced or removed it, also when
\* the media URLs of two concurrent sessions end in the same file name.
C36_TmpFilesApart == \A s \in Sessions : Uses(s) => OwnFileIntact(s)

====
